---- MODULE Spec2Model ----
(***************************************************************************)
(* Model of graph/iterator/iterator.go: the process-wide UID counter, the  *)
(* Base default behaviour and the Null (empty-set) leaf iterator.          *)
(*                                                                         *)
(* The heap of allocated *Null objects is the sequence `heap`; a reference *)
(* to an iterator is its index in that sequence.  Every method call is one *)
(* action; what the call returned is kept in `ret` (the most recent call   *)
(* and its results), so that properties of return values are properties    *)
(* of states.                                                              *)
(***************************************************************************)
EXTENDS Integers, Sequences, FiniteSets, TLC

\* ------------------------------------------------------------------ bounds
\* Number of iterators constructed in one run (caps nextIteratorID).
MaxIters == 2
\* Number of NewNull calls begun by the concurrent goroutines in one run.
MaxCalls == 3
\* Total number of tag registrations held by all iterators together.
MaxTags == 2

\* ------------------------------------------------------------ input sets
\* graph.Value is opaque; Nil is Go's nil interface value.
Nil == "nil"
Values == {"V1", "V2"}
\* Tag names offered to the Tagger and present in destination maps.
Tags == {"x", "y"}
\* Goroutines constructing iterators concurrently.
Threads == {"t1", "t2"}
\* Indentation widths handed to DebugString.
Indents == {0, 2}
\* The cost Base.Stats puts in every field of graph.IteratorStats.
BaseCost == 100000

VARIABLES
    nextIteratorID,  \* var nextIteratorID uint64
    heap,            \* the allocated Null objects, in allocation order
    pc,              \* per goroutine: position inside NewNull
    reg,             \* per goroutine: the value NextUID returned to it
    pre,             \* per goroutine: NextUID calls completed when its call began
    calls,           \* completed NextUID calls, in order of completion
    exhausted,       \* iterators whose Next reported exhaustion since their last Reset
    ret              \* the most recent method call and what it returned

vars == <<nextIteratorID, heap, pc, reg, pre, calls, exhausted, ret>>

Iters == DOMAIN heap

Range(s) == {s[k] : k \in DOMAIN s}

\* Partial maps from a set of keys to a set of values (Go map[string]graph.Value).
Maps(K, V) == UNION {[D -> V] : D \in SUBSET K}

EmptyMap == [t \in {} |-> Nil]

\* Destination maps handed to TagResults: any subset of the tag names already
\* bound, by an earlier writer, to V2.
DstMaps == Maps(Tags, {"V2"})

\* -------------------------------------------------------- UID generation
\* atomic.AddUint64(&nextIteratorID, delta): the new value, stored and returned.
AtomicAddUint64_NoStore(cur, delta) == cur

AtomicAddUint64_Sub(cur, delta) == cur - delta

AtomicAddUint64(cur, delta) == cur + delta

\* NextUID: the value before the increment.
NextUID(new) == new - 1

\* ------------------------------------------------------------------ Base
\* BaseInit(it): marks the iterator nextable.
BaseInit(it) == [it EXCEPT !.canNext = TRUE]

\* Base.Check(v)
Check_Accepts(it, v) == TRUE

Check(it, v) == FALSE

\* Base.Next(): (value, ok)
Next(it) == [val |-> Nil, ok |-> FALSE]

\* Base.Stats(): graph.IteratorStats{100000, 100000, 100000}
BaseStats_Zero(it) == [CheckCost |-> 0, NextCost |-> 0, Size |-> 0]

BaseStats(it) == [CheckCost |-> BaseCost, NextCost |-> BaseCost, Size |-> BaseCost]

\* Base.Size(): (0, true)
Size(it) == [n |-> 0, exact |-> TRUE]

\* Base.SubIterators(): nil
SubIterators(it) == <<>>

\* Base.NextResult()
NextResult(it) == FALSE

\* Base.Result()
Result(it) == it.Last

\* Base.CanNext()
CanNext(it) == it.canNext

\* Base.Reset(): nothing to do.
Reset_DropsTags(it) == [it EXCEPT !.tags = <<>>, !.fixed = EmptyMap]

Reset(it) == it

\* ------------------------------------------------------------------ Null
\* &Null{uid: uid}: every other field holds its zero value.
NullObject(uid) ==
    [kind |-> "Null", uid |-> uid, Last |-> Nil, canNext |-> FALSE,
     tags |-> <<>>, fixed |-> EmptyMap]

\* Null.Close(): nothing to do.
Close_DropsTags(it) == [it EXCEPT !.tags = <<>>, !.fixed = EmptyMap]

Close(it) == it

\* Null.UID()
UID(it) == it.uid

\* Null.Type(): graph.Null
Type(it) == IF it.kind = "Null" THEN "null" ELSE "base"

\* strings.Repeat(c, n), a string being the sequence of its characters.
Repeat(c, n) == [k \in 1..n |-> c]

\* Null.DebugString(indent): strings.Repeat(" ", indent) + "(null)"
DebugString(it, indent) == Repeat(" ", indent) \o <<"(", "n", "u", "l", "l", ")">>

\* Null.Stats(): graph.IteratorStats{}
Stats_Inherited(it) == BaseStats(it)

Stats(it) == [CheckCost |-> 0, NextCost |-> 0, Size |-> 0]

\* Null.Optimize(): (it, false); i is the reference the method was called on.
Optimize_Changed(i) == [repl |-> i, changed |-> TRUE]

Optimize(i) == [repl |-> i, changed |-> FALSE]

\* graph.Tagger: Tags() is the slice of dynamic names, Fixed() the fixed map.
TaggerTags(it) == it.tags

TaggerFixed(it) == it.fixed

\* m[k] = v on a Go map.
MapPut(m, k, v) == [t \in DOMAIN m \cup {k} |-> IF t = k THEN v ELSE m[t]]

\* for _, tag := range tags { dst[tag] = v }
WriteTags_SkipNil(dst, tags, v) ==
    IF v = Nil THEN dst
    ELSE [t \in DOMAIN dst \cup Range(tags) |-> IF t \in Range(tags) THEN v ELSE dst[t]]

RECURSIVE WriteTags(_, _, _)
WriteTags(dst, tags, v) ==
    IF tags = <<>> THEN dst
    ELSE WriteTags(MapPut(dst, Head(tags), v), Tail(tags), v)

\* for tag, value := range fixed { dst[tag] = value }
RECURSIVE WriteFixed(_, _, _)
WriteFixed(dst, fixed, keys) ==
    IF keys = {} THEN dst
    ELSE LET k == CHOOSE t \in keys : TRUE
         IN  WriteFixed(MapPut(dst, k, fixed[k]), fixed, keys \ {k})

\* Null.TagResults(dst): the destination map after the call.
TagResults_FixedFirst(it, dst) ==
    WriteTags(WriteFixed(dst, TaggerFixed(it), DOMAIN TaggerFixed(it)),
              TaggerTags(it), Result(it))

TagResults_FreshMap(it, dst) ==
    WriteFixed(WriteTags(EmptyMap, TaggerTags(it), Result(it)),
               TaggerFixed(it), DOMAIN TaggerFixed(it))

TagResults(it, dst) ==
    WriteFixed(WriteTags(dst, TaggerTags(it), Result(it)),
               TaggerFixed(it), DOMAIN TaggerFixed(it))

\* Number of tag registrations an iterator holds.
TagCount(it) == Len(it.tags) + Cardinality(DOMAIN it.fixed)

RECURSIVE TotalTags(_)
TotalTags(h) == IF h = <<>> THEN 0 ELSE TagCount(Head(h)) + TotalTags(Tail(h))

\* ----------------------------------------------------------------- Init
Init ==
    /\ nextIteratorID = 0
    /\ heap = <<>>
    /\ pc = [t \in Threads |-> "idle"]
    /\ reg = [t \in Threads |-> 0]
    /\ pre = [t \in Threads |-> 0]
    /\ calls = <<>>
    /\ exhausted = {}
    /\ ret = [op |-> "none"]

\* ------------------------------------------- construction, step by step
\* A goroutine enters NewNull and, inside it, NextUID.
InFlight == Cardinality({t \in Threads : pc[t] # "idle"})

EnterNewNull(t) ==
    /\ pc[t] = "idle"
    /\ Len(heap) + InFlight < MaxCalls
    /\ pc' = [pc EXCEPT ![t] = "NextUID"]
    /\ pre' = [pre EXCEPT ![t] = Len(calls)]
    /\ UNCHANGED <<nextIteratorID, heap, reg, calls, exhausted, ret>>

\* The atomic read-modify-write inside NextUID, and its return value.
StepNextUID(t) ==
    /\ pc[t] = "NextUID"
    /\ LET new == AtomicAddUint64(nextIteratorID, 1)
       IN  /\ nextIteratorID' = new
           /\ reg' = [reg EXCEPT ![t] = NextUID(new)]
           /\ calls' = Append(calls, [val |-> NextUID(new), pre |-> pre[t]])
    /\ pc' = [pc EXCEPT ![t] = "alloc"]
    /\ UNCHANGED <<heap, pre, exhausted, ret>>

\* The composite literal &Null{uid: ...} and the return from NewNull.
ReturnNewNull(t) ==
    /\ pc[t] = "alloc"
    /\ heap' = Append(heap, NullObject(reg[t]))
    /\ ret' = [op |-> "NewNull", new |-> Len(heap) + 1]
    /\ pc' = [pc EXCEPT ![t] = "idle"]
    /\ UNCHANGED <<nextIteratorID, reg, pre, calls, exhausted>>

\* it.UID(), from any goroutine holding a reference to it.
CallUID_ReadsCounter(i) ==
    /\ heap' = heap
    /\ ret' = [op |-> "UID", it |-> i, val |-> nextIteratorID]
    /\ UNCHANGED <<nextIteratorID, pc, reg, pre, calls, exhausted>>

CallUID(i) ==
    /\ heap' = heap
    /\ ret' = [op |-> "UID", it |-> i, val |-> UID(heap[i])]
    /\ UNCHANGED <<nextIteratorID, pc, reg, pre, calls, exhausted>>

NextUIDStep ==
    \/ \E t \in Threads : EnterNewNull(t) \/ StepNextUID(t) \/ ReturnNewNull(t)
    \/ \E i \in Iters : CallUID(i)

SpecUID == Init /\ [][NextUIDStep]_vars

\* --------------------------------------- construction by a single caller
\* What one uninterrupted NewNull() does to the counter, the log and the heap.
Construct ==
    LET new == AtomicAddUint64(nextIteratorID, 1)
    IN  /\ Len(heap) < MaxIters
        /\ nextIteratorID' = new
        /\ calls' = Append(calls, [val |-> NextUID(new), pre |-> Len(calls)])
        /\ heap' = Append(heap, NullObject(NextUID(new)))

\* NewNull()
NewNull ==
    /\ Construct
    /\ ret' = [op |-> "NewNull", new |-> Len(heap) + 1]
    /\ UNCHANGED <<pc, reg, pre, exhausted>>

\* it.Clone(): NewNull(); the receiver is not read.
Clone_ReturnsReceiver(i) ==
    /\ Len(heap) < MaxIters
    /\ ret' = [op |-> "Clone", it |-> i, new |-> i]
    /\ UNCHANGED <<nextIteratorID, heap, calls, pc, reg, pre, exhausted>>

Clone_CopiesTags(i) ==
    /\ Len(heap) < MaxIters
    /\ nextIteratorID' = AtomicAddUint64(nextIteratorID, 1)
    /\ calls' = Append(calls, [val |-> nextIteratorID, pre |-> Len(calls)])
    /\ heap' = Append(heap, [NullObject(nextIteratorID) EXCEPT
                                !.tags = heap[i].tags, !.fixed = heap[i].fixed])
    /\ ret' = [op |-> "Clone", it |-> i, new |-> Len(heap) + 1]
    /\ UNCHANGED <<pc, reg, pre, exhausted>>

Clone(i) ==
    /\ Construct
    /\ ret' = [op |-> "Clone", it |-> i, new |-> Len(heap) + 1]
    /\ UNCHANGED <<pc, reg, pre, exhausted>>

\* ------------------------------------------------------- method calls
\* (value, ok) := it.Next(); `again` records that the iterator had already
\* reported exhaustion, with no Reset since.
CallNext_Restarts(i) ==
    /\ heap' = heap
    /\ ret' = [op |-> "Next", it |-> i, val |-> Next(heap[i]).val,
               ok |-> i \in exhausted, again |-> i \in exhausted]
    /\ exhausted' = exhausted \cup {i}
    /\ UNCHANGED <<nextIteratorID, pc, reg, pre, calls>>

CallNext(i) ==
    /\ heap' = heap
    /\ ret' = [op |-> "Next", it |-> i, val |-> Next(heap[i]).val,
               ok |-> Next(heap[i]).ok, again |-> i \in exhausted]
    /\ exhausted' = IF Next(heap[i]).ok THEN exhausted ELSE exhausted \cup {i}
    /\ UNCHANGED <<nextIteratorID, pc, reg, pre, calls>>

\* it.Check(v)
CallCheck_SetsLast(i, v) ==
    /\ heap' = [heap EXCEPT ![i].Last = v]
    /\ ret' = [op |-> "Check", it |-> i, arg |-> v, ok |-> Check(heap[i], v)]
    /\ UNCHANGED <<nextIteratorID, pc, reg, pre, calls, exhausted>>

CallCheck(i, v) ==
    /\ heap' = heap
    /\ ret' = [op |-> "Check", it |-> i, arg |-> v, ok |-> Check(heap[i], v)]
    /\ UNCHANGED <<nextIteratorID, pc, reg, pre, calls, exhausted>>

CallNextResult(i) ==
    /\ heap' = heap
    /\ ret' = [op |-> "NextResult", it |-> i, ok |-> NextResult(heap[i])]
    /\ UNCHANGED <<nextIteratorID, pc, reg, pre, calls, exhausted>>

CallResult(i) ==
    /\ heap' = heap
    /\ ret' = [op |-> "Result", it |-> i, val |-> Result(heap[i])]
    /\ UNCHANGED <<nextIteratorID, pc, reg, pre, calls, exhausted>>

\* it.CanNext()
CallCanNext_Latches(i) ==
    /\ heap' = [heap EXCEPT ![i].canNext = TRUE]
    /\ ret' = [op |-> "CanNext", it |-> i, ok |-> CanNext(heap[i])]
    /\ UNCHANGED <<nextIteratorID, pc, reg, pre, calls, exhausted>>

CallCanNext(i) ==
    /\ heap' = heap
    /\ ret' = [op |-> "CanNext", it |-> i, ok |-> CanNext(heap[i])]
    /\ UNCHANGED <<nextIteratorID, pc, reg, pre, calls, exhausted>>

CallReset(i) ==
    /\ heap' = [heap EXCEPT ![i] = Reset(heap[i])]
    /\ exhausted' = exhausted \ {i}
    /\ ret' = [op |-> "Reset", it |-> i, was |-> i \in exhausted]
    /\ UNCHANGED <<nextIteratorID, pc, reg, pre, calls>>

CallClose(i) ==
    /\ heap' = [heap EXCEPT ![i] = Close(heap[i])]
    /\ ret' = [op |-> "Close", it |-> i]
    /\ UNCHANGED <<nextIteratorID, pc, reg, pre, calls, exhausted>>

CallOptimize(i) ==
    /\ heap' = heap
    /\ ret' = [op |-> "Optimize", it |-> i, repl |-> Optimize(i).repl,
               changed |-> Optimize(i).changed]
    /\ UNCHANGED <<nextIteratorID, pc, reg, pre, calls, exhausted>>

\* it.Stats()
CallStats(i) ==
    /\ heap' = heap
    /\ ret' = [op |-> "Stats", it |-> i, val |-> Stats(heap[i])]
    /\ UNCHANGED <<nextIteratorID, pc, reg, pre, calls, exhausted>>

\* it.Base.Stats(): the default that Null.Stats shadows.
CallBaseStats(i) ==
    /\ heap' = heap
    /\ ret' = [op |-> "Base.Stats", it |-> i, val |-> BaseStats(heap[i])]
    /\ UNCHANGED <<nextIteratorID, pc, reg, pre, calls, exhausted>>

\* it.Size()
CallSize(i) ==
    /\ heap' = heap
    /\ ret' = [op |-> "Size", it |-> i, val |-> Size(heap[i])]
    /\ UNCHANGED <<nextIteratorID, pc, reg, pre, calls, exhausted>>

\* it.SubIterators()
CallSubIterators(i) ==
    /\ heap' = heap
    /\ ret' = [op |-> "SubIterators", it |-> i, val |-> SubIterators(heap[i])]
    /\ UNCHANGED <<nextIteratorID, pc, reg, pre, calls, exhausted>>

\* it.Type()
CallType(i) ==
    /\ heap' = heap
    /\ ret' = [op |-> "Type", it |-> i, val |-> Type(heap[i])]
    /\ UNCHANGED <<nextIteratorID, pc, reg, pre, calls, exhausted>>

\* it.DebugString(indent)
CallDebugString(i, indent) ==
    /\ heap' = heap
    /\ ret' = [op |-> "DebugString", it |-> i, arg |-> indent,
               val |-> DebugString(heap[i], indent)]
    /\ UNCHANGED <<nextIteratorID, pc, reg, pre, calls, exhausted>>

\* it.Tagger().Add(tag)
TaggerAdd(i, tag) ==
    /\ TotalTags(heap) < MaxTags
    /\ heap' = [heap EXCEPT ![i].tags = Append(@, tag)]
    /\ ret' = [op |-> "Tagger.Add", it |-> i]
    /\ UNCHANGED <<nextIteratorID, pc, reg, pre, calls, exhausted>>

\* it.Tagger().AddFixed(tag, value)
TaggerAddFixed(i, tag, v) ==
    /\ tag \in DOMAIN heap[i].fixed \/ TotalTags(heap) < MaxTags
    /\ heap' = [heap EXCEPT ![i].fixed = MapPut(@, tag, v)]
    /\ ret' = [op |-> "Tagger.AddFixed", it |-> i]
    /\ UNCHANGED <<nextIteratorID, pc, reg, pre, calls, exhausted>>

CallTagResults(i, d) ==
    /\ heap' = heap
    /\ ret' = [op |-> "TagResults", it |-> i, dstIn |-> d,
               dst |-> TagResults(heap[i], d)]
    /\ UNCHANGED <<nextIteratorID, pc, reg, pre, calls, exhausted>>

Step ==
    \/ NewNull
    \/ \E i \in Iters :
        \/ Clone(i)
        \/ CallNext(i)
        \/ \E v \in Values : CallCheck(i, v)
        \/ CallNextResult(i)
        \/ CallResult(i)
        \/ CallCanNext(i)
        \/ CallUID(i)
        \/ CallReset(i)
        \/ CallClose(i)
        \/ CallOptimize(i)
        \/ \E tag \in Tags : TaggerAdd(i, tag)
        \/ \E tag \in Tags, v \in Values : TaggerAddFixed(i, tag, v)
        \/ \E d \in DstMaps : CallTagResults(i, d)

Spec == Init /\ [][Step]_vars

\* ---------------------------------------------- tagging a current result
\* it.Last = v: Last is an exported field of the embedded Base, which the
\* iterators built on Base assign when a traversal step confirms a value.
AssignLast(i, v) ==
    /\ heap' = [heap EXCEPT ![i].Last = v]
    /\ ret' = [op |-> "Last=", it |-> i, arg |-> v]
    /\ UNCHANGED <<nextIteratorID, pc, reg, pre, calls, exhausted>>

\* Construction, tag registration and tag propagation over iterators whose
\* Last may hold a value.
StepTags ==
    \/ NewNull
    \/ \E i \in Iters :
        \/ \E v \in Values : AssignLast(i, v)
        \/ \E tag \in Tags : TaggerAdd(i, tag)
        \/ \E tag \in Tags, v \in Values : TaggerAddFixed(i, tag, v)
        \/ \E d \in DstMaps : CallTagResults(i, d)
        \/ CallResult(i)

SpecTags == Init /\ [][StepTags]_vars

\* ------------------------------------------------------------ inspection
\* The methods that report on an iterator (Result, Stats, Size, SubIterators,
\* CanNext, UID, Type, TagResults, Optimize, DebugString), called between
\* construction, tag registration and the traversal and lifecycle calls.
StepInspect ==
    \/ NewNull
    \/ \E i \in Iters :
        \/ CallNext(i)
        \/ \E v \in Values : CallCheck(i, v)
        \/ CallReset(i)
        \/ CallClose(i)
        \/ \E tag \in Tags : TaggerAdd(i, tag)
        \/ \E tag \in Tags, v \in Values : TaggerAddFixed(i, tag, v)
        \/ CallResult(i)
        \/ CallStats(i)
        \/ CallBaseStats(i)
        \/ CallSize(i)
        \/ CallSubIterators(i)
        \/ CallCanNext(i)
        \/ CallUID(i)
        \/ CallType(i)
        \/ \E d \in DstMaps : CallTagResults(i, d)
        \/ CallOptimize(i)
        \/ \E indent \in Indents : CallDebugString(i, indent)

SpecInspect == Init /\ [][StepInspect]_vars

\* ---------------------------------------------------------------- claims
\* C1: iterators constructed concurrently, in any interleaving of the
\* goroutines, carry pairwise distinct UIDs.
C1_DistinctUIDs ==
    \A i, j \in Iters : i # j => UID(heap[i]) # UID(heap[j])

\* Two iterators exist and the construction of one began before the NextUID
\* call of an earlier-numbered one had completed.
C1_Witness ==
    /\ Len(heap) >= 2
    /\ \E k \in DOMAIN calls : calls[k].pre < k - 1

\* C2: NextUID never returns a value twice, and a call that starts after
\* another has completed returns a strictly larger value.
C2_MonotonicNeverReused ==
    \A k \in DOMAIN calls :
        /\ \A j \in 1..calls[k].pre : calls[j].val < calls[k].val
        /\ \A j \in DOMAIN calls : j # k => calls[j].val # calls[k].val

\* A call that began after two others had completed, and has completed itself.
C2_Witness ==
    \E k \in DOMAIN calls : calls[k].pre >= 2

\* C3: on a Null iterator, whatever has been called before, Next reports
\* ok = false, NextResult reports false and Check reports false for every value.
C3_NullNeverMatches ==
    /\ ret.op \in {"Next", "Check", "NextResult"} => ret.ok = FALSE
    /\ \A i \in Iters :
        /\ Next(heap[i]).ok = FALSE
        /\ NextResult(heap[i]) = FALSE
        /\ \A v \in Values : Check(heap[i], v) = FALSE

\* Check has just been called on a tagged iterator that Next had exhausted,
\* while a second iterator exists.
C3_Witness ==
    /\ ret.op = "Check"
    /\ ret.it \in exhausted
    /\ TagCount(heap[ret.it]) > 0
    /\ Len(heap) >= 2

\* C4: once Next has reported exhaustion, every later Next on that iterator
\* with no Reset in between reports exhaustion again, with no value.
C4_StickyExhaustion ==
    /\ (ret.op = "Next" /\ ret.again) => (ret.ok = FALSE /\ ret.val = Nil)
    /\ \A i \in exhausted : Next(heap[i]).ok = FALSE

\* Next has just been called on an iterator that had already reported
\* exhaustion.
C4_Witness ==
    ret.op = "Next" /\ ret.again

\* C5: the Last of a Null iterator is never set: Result() is nil in every
\* reachable state.
C5_LastNeverSet ==
    /\ \A i \in Iters : Result(heap[i]) = Nil
    /\ ret.op = "Result" => ret.val = Nil

\* Result has just been read on a tagged iterator after Next was called on it.
C5_Witness ==
    /\ ret.op = "Result"
    /\ ret.it \in exhausted
    /\ TagCount(heap[ret.it]) > 0

\* C6: Clone returns a new instance with a UID different from the original's
\* and from every other iterator's, of type null, answering Next and Check as
\* the original does; and no call changes the Last of any iterator other than
\* the one it is made on.
C6_ClonePost ==
    ret.op = "Clone" =>
        /\ ret.new \in Iters
        /\ ret.new # ret.it
        /\ \A k \in Iters \ {ret.new} : UID(heap[k]) # UID(heap[ret.new])
        /\ Type(heap[ret.new]) = "null"
        /\ Type(heap[ret.new]) = Type(heap[ret.it])
        /\ Next(heap[ret.new]) = Next(heap[ret.it])
        /\ \A v \in Values : Check(heap[ret.new], v) = Check(heap[ret.it], v)

C6_Independent ==
    \A i \in Iters :
        heap'[i].Last # heap[i].Last => (ret'.op # "NewNull" /\ ret'.it = i)

C6_CloneFreshIndependent == []C6_ClonePost /\ [][C6_Independent]_vars

\* Clone has just been called on a tagged, exhausted iterator.
C6_Witness ==
    /\ ret.op = "Clone"
    /\ ret.it \in exhausted
    /\ TagCount(heap[ret.it]) > 0

\* C7: after TagResults(dst), every dynamic tag that is not a fixed key is
\* bound to Last, and every fixed key to its fixed value; a name that is both
\* takes the fixed value.
C7_TagResults ==
    ret.op = "TagResults" =>
        LET it == heap[ret.it]
            D  == Range(TaggerTags(it))
            F  == TaggerFixed(it)
        IN  /\ \A t \in D \ DOMAIN F :
                t \in DOMAIN ret.dst /\ ret.dst[t] = it.Last
            /\ \A k \in DOMAIN F :
                k \in DOMAIN ret.dst /\ ret.dst[k] = F[k]

\* TagResults has just run, into a map that already held entries, on an
\* iterator whose Last holds a value and that has the same name as a dynamic
\* tag and as a fixed key.
C7_Witness ==
    /\ ret.op = "TagResults"
    /\ heap[ret.it].Last \in Values
    /\ ret.dstIn # EmptyMap
    /\ Range(TaggerTags(heap[ret.it])) \cap DOMAIN TaggerFixed(heap[ret.it]) # {}

\* The first n results of a traversal by Next from state it.
RECURSIVE Enumerate(_, _)
Enumerate(it, n) == IF n = 0 THEN <<>> ELSE <<Next(it)>> \o Enumerate(it, n - 1)

\* C8: Reset leaves Result() empty as on a fresh iterator, keeps the dynamic
\* and fixed tags and the UID, and a traversal after it yields what a
\* traversal from the pre-traversal state yields.
C8_ResetStep ==
    \A i \in Iters :
        (ret'.op = "Reset" /\ ret'.it = i) =>
            /\ Result(heap'[i]) = Result(NullObject(UID(heap[i])))
            /\ TaggerTags(heap'[i]) = TaggerTags(heap[i])
            /\ TaggerFixed(heap'[i]) = TaggerFixed(heap[i])
            /\ UID(heap'[i]) = UID(heap[i])
            /\ Enumerate(heap'[i], 3) = Enumerate(NullObject(UID(heap[i])), 3)
            /\ i \notin exhausted'

C8_ResetKeepsConfiguration == [][C8_ResetStep]_vars

\* Reset has just been called on a tagged iterator that Next had exhausted.
C8_Witness ==
    /\ ret.op = "Reset"
    /\ ret.was
    /\ TagCount(heap[ret.it]) > 0

\* C9: immediately after NewNull the iterator has no match and is
\* advance-capable, the state BaseInit leaves an iterator in.
C9_FreshIsAdvanceCapable ==
    ret.op = "NewNull" =>
        /\ Result(heap[ret.new]) = Nil
        /\ CanNext(heap[ret.new]) = TRUE
        /\ heap[ret.new] = BaseInit(heap[ret.new])

\* C10: Optimize returns the receiver itself with changed = false and leaves
\* the receiver, like every other iterator, as it was.
C10_OptimizePost ==
    ret.op = "Optimize" => (ret.repl = ret.it /\ ret.changed = FALSE)

C10_OptimizeStep ==
    ret'.op = "Optimize" => heap' = heap

C10_OptimizeSelfUnchanged == []C10_OptimizePost /\ [][C10_OptimizeStep]_vars

\* Optimize has just been called on a tagged iterator that Next had exhausted.
C10_Witness ==
    /\ ret.op = "Optimize"
    /\ ret.it \in exhausted
    /\ TagCount(heap[ret.it]) > 0

\* C11: Stats() on a Null iterator is the all-zero cost triple in every
\* reachable state, whatever Next, Check, Reset and Close calls came before.
C11_NullStatsZero ==
    /\ \A i \in Iters :
        Stats(heap[i]) = [CheckCost |-> 0, NextCost |-> 0, Size |-> 0]
    /\ ret.op = "Stats" =>
        (ret.val.Size = 0 /\ ret.val.NextCost = 0 /\ ret.val.CheckCost = 0)

\* Stats has just been read on a tagged iterator that Next had exhausted.
C11_Witness ==
    /\ ret.op = "Stats"
    /\ ret.it \in exhausted
    /\ TagCount(heap[ret.it]) > 0

\* C12: Close changes nothing, on an iterator that never began traversal as
\* on any other, and a second Close leaves what the first left.
C12_CloseStep ==
    ret'.op = "Close" =>
        /\ heap' = heap
        /\ exhausted' = exhausted
        /\ nextIteratorID' = nextIteratorID
        /\ Close(Close(heap[ret'.it])) = Close(heap[ret'.it])

C12_CloseNoOp == [][C12_CloseStep]_vars

\* Close has just been called on a tagged iterator on which no traversal is
\* under way, while another iterator is exhausted.
C12_Witness ==
    /\ ret.op = "Close"
    /\ ret.it \notin exhausted
    /\ TagCount(heap[ret.it]) > 0
    /\ exhausted # {}

\* C13: TagResults on a Null iterator writes every fixed key with its fixed
\* value and every dynamic tag name; a dynamic name that is not also a fixed
\* key ends bound to nil, whether or not Next or Check was called before.
C13_NullTagResults ==
    ret.op = "TagResults" =>
        LET it == heap[ret.it]
        IN  /\ \A k \in DOMAIN TaggerFixed(it) :
                k \in DOMAIN ret.dst /\ ret.dst[k] = TaggerFixed(it)[k]
            /\ \A t \in Range(TaggerTags(it)) :
                /\ t \in DOMAIN ret.dst
                /\ t \notin DOMAIN TaggerFixed(it) => ret.dst[t] = Nil

\* TagResults has just run on an exhausted iterator holding a dynamic tag and
\* a fixed tag of another name.
C13_Witness ==
    /\ ret.op = "TagResults"
    /\ ret.it \in exhausted
    /\ Range(TaggerTags(heap[ret.it])) \ DOMAIN TaggerFixed(heap[ret.it]) # {}
    /\ DOMAIN TaggerFixed(heap[ret.it]) # {}

\* C14: the UID of an iterator is the value NextUID gave its construction,
\* UID() reports it, and no call on it or on any other iterator changes it.
C14_UIDAsConstructed ==
    /\ \A i \in Iters : UID(heap[i]) = calls[i].val
    /\ ret.op = "UID" => ret.val = calls[ret.it].val

C14_UIDStep ==
    \A i \in Iters : i \in DOMAIN heap' /\ UID(heap'[i]) = UID(heap[i])

C14_UIDStable == []C14_UIDAsConstructed /\ [][C14_UIDStep]_vars

\* UID has just been read on the first iterator, tagged and exhausted, after
\* a later construction advanced the counter.
C14_Witness ==
    /\ ret.op = "UID"
    /\ ret.it = 1
    /\ Len(heap) >= 2
    /\ 1 \in exhausted
    /\ TagCount(heap[1]) > 0

\* The methods that report on an iterator without traversing it.
InspectOps ==
    {"Result", "Stats", "Size", "SubIterators", "CanNext", "UID", "Type",
     "TagResults", "Optimize", "DebugString"}

\* C15: Result, Stats, Size, SubIterators, CanNext, UID, Type, TagResults,
\* Optimize and DebugString leave the Last, the can-advance flag, the UID and
\* the tags of every iterator as they were.
C15_InspectStep ==
    ret'.op \in InspectOps =>
        \A i \in Iters :
            /\ i \in DOMAIN heap'
            /\ heap'[i].Last = heap[i].Last
            /\ heap'[i].canNext = heap[i].canNext
            /\ heap'[i].uid = heap[i].uid
            /\ heap'[i].tags = heap[i].tags
            /\ heap'[i].fixed = heap[i].fixed

C15_InspectionChangesNothing == [][C15_InspectStep]_vars

\* DebugString has just been called on a tagged iterator that Next had
\* exhausted.
C15_Witness ==
    /\ ret.op = "DebugString"
    /\ ret.arg > 0
    /\ ret.it \in exhausted
    /\ TagCount(heap[ret.it]) > 0

\* C16: the Stats that Base provides is 100000 in size, next cost and check
\* cost in every state, in no field below what Null.Stats reports.
C16_BaseStatsSentinel ==
    /\ \A i \in Iters :
        /\ BaseStats(heap[i]).Size >= Stats(heap[i]).Size
        /\ BaseStats(heap[i]).NextCost >= Stats(heap[i]).NextCost
        /\ BaseStats(heap[i]).CheckCost >= Stats(heap[i]).CheckCost
    /\ ret.op = "Base.Stats" =>
        /\ ret.val.Size = 100000
        /\ ret.val.NextCost = 100000
        /\ ret.val.CheckCost = 100000

\* Base.Stats has just been read on a tagged iterator that Next had exhausted.
C16_Witness ==
    /\ ret.op = "Base.Stats"
    /\ ret.it \in exhausted
    /\ TagCount(heap[ret.it]) > 0

\* C17: TagResults assigns exactly the dynamic tag names and the fixed keys;
\* every other entry of dst keeps its value and no key of dst disappears.
C17_TagResultsFrame ==
    ret.op = "TagResults" =>
        LET it == heap[ret.it]
            W  == Range(TaggerTags(it)) \cup DOMAIN TaggerFixed(it)
        IN  /\ DOMAIN ret.dst = DOMAIN ret.dstIn \cup W
            /\ \A k \in DOMAIN ret.dstIn \ W : ret.dst[k] = ret.dstIn[k]

\* TagResults has just run, on an iterator with a tag, into a map holding an
\* entry under a name the iterator does not use.
C17_Witness ==
    /\ ret.op = "TagResults"
    /\ TagCount(heap[ret.it]) > 0
    /\ DOMAIN ret.dstIn \ (Range(TaggerTags(heap[ret.it]))
                           \cup DOMAIN TaggerFixed(heap[ret.it])) # {}

\* C18: a clone starts with no tags whatever the original holds, so its
\* TagResults writes nothing into an empty map; and a change to the tags of
\* one iterator comes only from a registration made on that iterator.
C18_ClonePost ==
    ret.op = "Clone" =>
        /\ TaggerTags(heap[ret.new]) = <<>>
        /\ TaggerFixed(heap[ret.new]) = EmptyMap
        /\ TagResults(heap[ret.new], EmptyMap) = EmptyMap

C18_TagsStep ==
    \A i \in Iters :
        (heap'[i].tags # heap[i].tags \/ heap'[i].fixed # heap[i].fixed) =>
            (ret'.op \in {"Tagger.Add", "Tagger.AddFixed"} /\ ret'.it = i)

C18_CloneHasNoTags == []C18_ClonePost /\ [][C18_TagsStep]_vars

\* Clone has just been called on an iterator holding a dynamic and a fixed
\* tag.
C18_Witness ==
    /\ ret.op = "Clone"
    /\ Len(TaggerTags(heap[ret.it])) > 0
    /\ DOMAIN TaggerFixed(heap[ret.it]) # {}

====
